---- MODULE Spec2Model ----
(***************************************************************************)
(* A model of easy-redux-fsm (index.js): the index built from a machine    *)
(* description, the transition engine (_handleInput), the reducer and the  *)
(* middleware that buffers inputs while an asynchronous action is pending. *)
(* One Redux store holds the runtime state of every machine, keyed by the  *)
(* machine's key.  A JavaScript handler runs to completion, so every       *)
(* store.dispatch from the outside and every promise callback is one step. *)
(***************************************************************************)
EXTENDS Integers, Sequences, FiniteSets, TLC

(***************************************************************************)
(* Bounds.                                                                 *)
(***************************************************************************)
\* How many inputs are dispatched to the store in one behaviour.
MaxInputs == 4

\* the largest number of children of a node of a generated description
MaxKids == 2

\* the largest number of notifications of one event at which the store's
\* listener is followed
MaxReentrant == 2

(***************************************************************************)
(* Constants of index.js.                                                  *)
(***************************************************************************)
START == "START"
END == "END"

HANDLE_INPUT == "HANDLE_INPUT"
_TRANSITIONED == "TRANSITIONED"
_TRANSITIONING == "TRANSITIONING"
_UPDATE_BUFFER == "UPDATE_BUFFER"

\* The keys of the machines that share the store.
Keys == {"fsm1", "fsm2"}

(***************************************************************************)
(* JavaScript values that occur as inputs and as literal accepts rules:    *)
(* strings and numbers.  Truthy is JavaScript's ToBoolean on them.  id is   *)
(* not part of the value: it numbers the inputs dispatched to one machine  *)
(* (0 before dispatch) so that two equal inputs can be told apart in the   *)
(* histories; no definition that models code reads it.                     *)
(***************************************************************************)
Str(s) == [kind |-> "str", s |-> s, n |-> 0, id |-> 0]
Num(n) == [kind |-> "num", s |-> "", n |-> n, id |-> 0]
Tag(input, id) == [input EXCEPT !.id = id]

Truthy(v) == IF v.kind = "str" THEN v.s # "" ELSE v.n # 0

\* String(v), for the numbers the model uses.
ToText(v) ==
  IF v.kind = "str" THEN v.s
  ELSE IF v.n = 5 THEN "5"
  ELSE IF v.n = 0 THEN "0"
  ELSE "NaN"

\* The inputs a caller dispatches.
Inputs == {Str("c"), Str("caaaab"), Str("hello"), Num(5)}

\* The second machine of the store is sent one kind of input, as in the tests
\* with two machines.
InputsOf(k) == IF k = "fsm1" THEN Inputs ELSE {Str("hello")}

(***************************************************************************)
(* accepts rules.  kind is what typeof / instanceof tell apart: absent     *)
(* (undefined), a string, a number, a RegExp (s is its source) or a        *)
(* function (s is its name).                                               *)
(***************************************************************************)
NoAccepts == [kind |-> "absent", s |-> "", n |-> 0]
AccStr(s) == [kind |-> "str", s |-> s, n |-> 0]
AccNum(n) == [kind |-> "num", s |-> "", n |-> n]
AccRegExp(src) == [kind |-> "regex", s |-> src, n |-> 0]
AccFn(name) == [kind |-> "fn", s |-> name, n |-> 0]

\* RegExp.prototype.test of the patterns the descriptions use, on String(input).
RegExpTest(src, input) ==
  LET text == ToText(input) IN
  CASE src = "c.*b" -> text \in {"caaaab", "cb"}
    [] src = ".*" -> TRUE
    [] OTHER -> FALSE

\* The predicates the descriptions use: startsWithC(x) is x[0] === 'c'.
PredicateTruthy(name, input) ==
  CASE name = "startsWithC" -> input.kind = "str" /\ input.s \in {"c", "caaaab", "cb"}
    [] name = "never" -> FALSE
    [] OTHER -> FALSE

(***************************************************************************)
(* Nodes of a description.  action is what the node's action function      *)
(* returns when called: "sync" (undefined), "async" (a Promise), "value"   *)
(* (a truthy value that is not a Promise); "noaction" marks a node that    *)
(* has no action property.  next = "" is a node without next, children =   *)
(* <<>> one without children, _fullName = "" one that was never stamped.   *)
(***************************************************************************)
Node(name, accepts, action, children, next) ==
  [name |-> name, accepts |-> accepts, action |-> action,
   children |-> children, next |-> next, _fullName |-> ""]

(***************************************************************************)
(* The descriptions a machine is constructed from: the ones of the test    *)
(* suite and of the README, and small ones for each rule of _handleInput.  *)
(***************************************************************************)
\* test 'single machine, single state, synchronous write'
DescSyncLoop == <<Node("StateA", NoAccepts, "sync", <<>>, "StateA")>>

\* test 'single machine, single state, asynchronous write'
DescAsyncLoop == <<Node("StateA", NoAccepts, "async", <<>>, "StateA")>>

\* test 'single machine, three states, ordered asynchronous write'
DescChain ==
  <<Node("StateA", NoAccepts, "async", <<>>, "StateB"),
    Node("StateB", NoAccepts, "async", <<>>, "StateC"),
    Node("StateC", NoAccepts, "async", <<>>, "")>>

\* test 'single machine, two states, mixed sync and async'
DescMixed ==
  <<Node("StateA", NoAccepts, "async", <<>>, "StateB"),
    Node("StateB", NoAccepts, "sync", <<>>, "")>>

\* test 'single machine, multiple children, mixed sync and async'
DescChildren ==
  <<Node("StateA", NoAccepts, "async",
         <<Node("StateB", AccStr("c"), "sync", <<>>, ""),
           Node("StateC", AccRegExp("c.*b"), "sync", <<>>, "StateA")>>,
         "")>>

\* the README's complete example: next: fsm.states.START
DescLoopStart == <<Node("A", AccRegExp(".*"), "sync", <<>>, START)>>

\* a next that names no state
DescDangling == <<Node("A", NoAccepts, "sync", <<>>, "Nowhere")>>

\* nested states: the children of a child
DescNested ==
  <<Node("StateA", NoAccepts, "async",
         <<Node("StateB", NoAccepts, "async",
                <<Node("StateC", NoAccepts, "sync", <<>>, "StateA.StateB")>>,
                "")>>,
         "")>>

\* literal accepts rules: a number, the empty string, a string
DescLiterals ==
  <<Node("Hub", NoAccepts, "sync",
         <<Node("K5", AccNum(5), "sync", <<>>, "Hub"),
           Node("KEmpty", AccStr(""), "sync", <<>>, "Hub"),
           Node("KC", AccStr("c"), "async", <<>>, "Hub")>>,
         "")>>

\* several siblings that accept the same input; next overrides children
DescFirstMatch ==
  <<Node("Hub", NoAccepts, "sync",
         <<Node("P", AccFn("startsWithC"), "async", <<>>, "Hub"),
           Node("R", AccRegExp("c.*b"), "sync", <<>>, "Hub"),
           Node("W", NoAccepts, "sync",
                <<Node("X", AccFn("never"), "sync", <<>>, "")>>, "Hub")>>,
         "")>>

\* an action that returns a truthy value that is not a Promise
DescValue == <<Node("A", NoAccepts, "value", <<>>, "A")>>

\* a top-level state that is itself named END, reached through next
DescEnd ==
  <<Node("StateA", NoAccepts, "async", <<>>, END),
    Node(END, NoAccepts, "sync", <<>>, "StateA")>>

\* Descriptions for the index: trees of up to three levels over a few names,
\* among them equal sibling names, a name with a dot in it, the empty name
\* and the names of the synthetic states.
Names == {"A", "B", "A.B", "", START, END}

Leaf(name) == Node(name, NoAccepts, "sync", <<>>, "")

Leaves == {Leaf(name) : name \in Names}

SeqsUpTo(S, n) == UNION {[1..m -> S] : m \in 0..n}

Trees1 ==
  {Node(name, NoAccepts, "sync", kids, "") :
     name \in Names, kids \in SeqsUpTo(Leaves, MaxKids)}

Trees2 == {Node(name, NoAccepts, "sync", <<t>>, "") : name \in Names, t \in Trees1}

GenDescriptions ==
  {<<t>> : t \in Trees1 \cup Trees2} \cup {<<t, l>> : t \in Trees1, l \in Leaves}

Descriptions ==
  {DescSyncLoop, DescAsyncLoop, DescChain, DescMixed, DescChildren,
   DescLoopStart, DescDangling, DescNested, DescLiterals, DescFirstMatch,
   DescValue, DescEnd}

(***************************************************************************)
(* FSM.prototype._buildIndex.  The index maps a path to a node.  The code  *)
(* stamps _fullName on the node objects of the description, which the      *)
(* index and every children list share; here the tree is stamped first     *)
(* and then indexed, which gives the same index.                           *)
(***************************************************************************)
Put(f, k, v) == [x \in (DOMAIN f) \cup {k} |-> IF x = k THEN v ELSE f[x]]

NewPrefix(prefix, node) ==
  IF prefix # "" THEN prefix \o "." \o node.name ELSE node.name

RECURSIVE Stamp(_, _)
Stamp(prefix, node) ==
  [node EXCEPT !._fullName = NewPrefix(prefix, node),
               !.children = [i \in 1..Len(node.children) |->
                               Stamp(NewPrefix(prefix, node), node.children[i])]]

RECURSIVE _indexNode(_, _), IndexEach(_, _, _)
\* (a variant that files a node under its name instead of its path)
_indexNode_ByName(index, node) ==
  IndexEach(Put(index, node.name, node), node.children, 1)

\* index[newPrefix] = node, then the children in declared order
_indexNode(index, node) ==
  IndexEach(Put(index, node._fullName, node), node.children, 1)

\* nodes.forEach(_indexNode) from position i on
IndexEach(index, nodes, i) ==
  IF i > Len(nodes) THEN index
  ELSE IndexEach(_indexNode(index, nodes[i]), nodes, i + 1)

\* the description after _buildIndex: every node carries its _fullName
StampAll(description) ==
  [i \in 1..Len(description) |-> Stamp("", description[i])]

_buildIndex(description) ==
  LET stamped == StampAll(description)
      synthetic ==
        Put(Put(<<>>, START, Node(START, NoAccepts, "noaction", stamped, "")),
            END, Node(END, NoAccepts, "noaction", <<>>, ""))
  IN IndexEach(synthetic, stamped, 1)

(***************************************************************************)
(* State.                                                                  *)
(*   description, index : this.description and this.index of each machine  *)
(*   store      : the Redux state, one FSMState record per key             *)
(*   pending    : the promises of started actions that have not settled    *)
(*   invoked    : history, the action invocations of each machine          *)
(*   submitted  : history, the inputs dispatched to each machine           *)
(*   ev         : the last event (a dispatch from outside or a settle)     *)
(*   outcome    : what the last event raised, the diagnostics it printed,  *)
(*                the accepts functions it called, its calls of            *)
(*                _handleInput, the actions it passed to the reducers and  *)
(*                the actions it gave to store.dispatch                    *)
(***************************************************************************)
VARIABLES description, index, store, pending, invoked, submitted, ev, outcome

vars == <<description, index, store, pending, invoked, submitted, ev, outcome>>

(***************************************************************************)
(* Redux actions.  Undefined is the value of a call that returns nothing.  *)
(***************************************************************************)
Undefined == [type |-> "undefined", key |-> "", nextState |-> "", buffer |-> <<>>]

\* FSM.prototype._transitioned
_transitioned(self, stateName) ==
  [type |-> _TRANSITIONED, key |-> self, nextState |-> stateName, buffer |-> <<>>]

\* FSM.prototype._transitioning
_transitioning(self) ==
  [type |-> _TRANSITIONING, key |-> self, nextState |-> "", buffer |-> <<>>]

\* FSM.prototype._updateBuffer
_updateBuffer(self, buffer) ==
  [type |-> _UPDATE_BUFFER, key |-> self, nextState |-> "", buffer |-> buffer]

\* FSM.prototype.createEmpty
createEmpty == [stateName |-> START, transitioning |-> FALSE, inputBuffer |-> <<>>]

\* Immutable.List: unshift, get(0), shift
\* (a variant of unshift that overwrites the first entry, as list.set(0, x) would)
Unshift_Overwrite(list, x) == IF list = <<>> THEN <<x>> ELSE <<x>> \o Tail(list)

Unshift(list, x) == <<x>> \o list

\* (a variant of shift that empties the list, as list.clear() would)
Shift_Clear(list) == <<>>

Shift(list) == IF list = <<>> THEN <<>> ELSE Tail(list)

(***************************************************************************)
(* FSM.prototype.reducer, the reducer of machine self.                     *)
(***************************************************************************)
\* (a variant without the TRANSITIONING case)
reducer_NoTransitioning(self, state, action) ==
  IF action.key # self THEN state
  ELSE CASE action.type = _TRANSITIONED ->
              [state EXCEPT !.stateName = action.nextState, !.transitioning = FALSE]
         [] action.type = _UPDATE_BUFFER ->
              [state EXCEPT !.inputBuffer = action.buffer]
         [] OTHER -> state

reducer(self, state, action) ==
  IF action.key # self THEN state
  ELSE CASE action.type = _TRANSITIONED ->
              [state EXCEPT !.stateName = action.nextState, !.transitioning = FALSE]
         [] action.type = _TRANSITIONING ->
              [state EXCEPT !.transitioning = TRUE]
         [] action.type = _UPDATE_BUFFER ->
              [state EXCEPT !.inputBuffer = action.buffer]
         [] OTHER -> state

\* (a variant in which every machine's slice follows the action's machine)
rootReducer_Shared(state, action) ==
  [k \in Keys |-> reducer(action.key, state[k], action)]

\* redux.combineReducers over the reducers of all machines (createTestStores)
rootReducer(state, action) == [k \in Keys |-> reducer(k, state[k], action)]

(***************************************************************************)
(* A world is what a handler can change: the store, the pending promises,  *)
(* the invocation history and the diagnostics printed.  A step of a        *)
(* handler yields the new world and the error it threw ("none" if none).   *)
(***************************************************************************)
Ok(w) == [w |-> w, err |-> "none"]
Throw(w, e) == [w |-> w, err |-> e]
Warn(w, d) == [w EXCEPT !.diag = @ \cup {d}]

\* next(action) as seen by the middleware of machine self: the middlewares of
\* the other machines pass an action of another key on, and the store runs
\* the reducer.  Neither takes a value that is not an action object.
\* passed collects the actions that reached the reducers.  After the
\* reducers have run the store notifies its listeners (store.subscribe).
\* script tells what the listener does at the notifications to come: <<>> is
\* nothing, <<a>> is store.dispatch(a) from inside the listener.
RECURSIVE dispatch(_, _)
Notify(w) ==
  IF w.script = <<>> THEN Ok(w)
  ELSE LET todo == Head(w.script)
           w1 == [w EXCEPT !.script = Tail(@)]
       IN IF todo = <<>> THEN Ok(w1) ELSE dispatch(w1, todo[1])

next(w, action) ==
  IF action = Undefined THEN Throw(w, "InvalidAction")
  ELSE Notify([w EXCEPT !.store = rootReducer(w.store, action),
                        !.passed = Append(@, action)])

(***************************************************************************)
(* _findMatchingChild (inside FSM.prototype._handleInput).                 *)
(***************************************************************************)
\* !accepts: undefined, the empty string and 0 are falsy
Falsy(accepts) ==
  \/ accepts.kind = "absent"
  \/ accepts.kind = "str" /\ accepts.s = ""
  \/ accepts.kind = "num" /\ accepts.n = 0

\* the condition of the second if of the loop body
Matches(accepts, input) ==
  \/ accepts.kind = "str" /\ input.kind = "str" /\ accepts.s = input.s
  \/ accepts.kind = "fn" /\ PredicateTruthy(accepts.s, input)
  \/ accepts.kind = "regex" /\ RegExpTest(accepts.s, input)

\* the decision the loop of _findMatchingChild takes for one child
CodeAccepts(accepts, input) == Falsy(accepts) \/ Matches(accepts, input)

\* The for loop from position i on.  found is <<>> for null or <<child>>;
\* called collects the children whose accepts function was called.
RECURSIVE FindFrom(_, _, _, _)
FindFrom(children, input, i, called) ==
  IF i > Len(children) THEN [found |-> <<>>, called |-> called]
  ELSE LET child == children[i]
           accepts == child.accepts
       IN IF Falsy(accepts) THEN [found |-> <<child>>, called |-> called]
          ELSE LET called2 == IF accepts.kind = "fn"
                              THEN called \cup {child._fullName} ELSE called
               IN IF Matches(accepts, input)
                  THEN [found |-> <<child>>, called |-> called2]
                  ELSE FindFrom(children, input, i + 1, called2)

_findMatchingChild(children, input) ==
  IF Len(children) = 0 THEN [found |-> <<>>, called |-> {}]
  ELSE FindFrom(children, input, 1, {})

(***************************************************************************)
(* FSM.prototype._handleInput.  The result is the world after the call,    *)
(* the error thrown and the Redux action returned.                         *)
(***************************************************************************)
Return(w, action) == [w |-> w, err |-> "none", result |-> action]
Raise(w, e) == [w |-> w, err |-> e, result |-> Undefined]

\* a function handed over as an argument
Fn(name) == [kind |-> "fn", s |-> name, n |-> 0, id |-> 0]

\* the arguments of successor.action(getState, dispatch)
ActionArgs(input) == <<Fn("getState"), Fn("dispatch")>>

\* (a variant that reports every action as still running)
CallAction_AlwaysPending(self, w, key, input, successor) ==
  IF successor.action = "noaction" THEN Raise(w, "TypeError")
  ELSE
    LET w1 == [w EXCEPT !.invoked[key] =
                 Append(@, [node |-> successor._fullName, input |-> input,
                            inflight |-> Len(w.pending[key]),
                            args |-> ActionArgs(input)])]
    IN CASE successor.action = "value" -> Raise(w1, "NotPromise")
         [] successor.action = "async" ->
              Return([w1 EXCEPT !.pending[key] =
                        Append(@, [succ |-> successor._fullName])],
                     _transitioning(self))
         [] OTHER -> Return(w1, _transitioning(self))

\* successor.action(getState, dispatch) and what follows it
CallAction(self, w, key, input, successor) ==
  IF successor.action = "noaction" THEN Raise(w, "TypeError")
  ELSE
    LET w1 == [w EXCEPT !.invoked[key] =
                 Append(@, [node |-> successor._fullName, input |-> input,
                            inflight |-> Len(w.pending[key]),
                            args |-> ActionArgs(input)])]
    IN CASE successor.action = "value" -> Raise(w1, "NotPromise")
         [] successor.action = "async" ->
              Return([w1 EXCEPT !.pending[key] =
                        Append(@, [succ |-> successor._fullName])],
                     _transitioning(self))
         [] OTHER -> Return(w1, _transitioned(self, successor._fullName))

\* (a variant of the END check that never finds the machine at END)
AtEnd_Never(node) == FALSE

\* node.name === STATES.END
AtEnd(node) == node.name = END

_handleInput(self, w_in, key, input) ==
  LET nodePath == w_in.store[key].stateName
      idx == index[self]
      w == [w_in EXCEPT !.handled = Append(@, [at |-> nodePath, input |-> input])]
  IN
  IF nodePath = "" THEN Raise(w, "NonexistentMachine")
  ELSE IF nodePath \notin DOMAIN idx THEN Raise(w, "TypeError")
  ELSE
    LET node == idx[nodePath] IN
    IF AtEnd(node) THEN Return(Warn(w, "in END state"), Undefined)
    \* this._transition is not a function
    ELSE IF node.next = "" /\ Len(node.children) = 0 THEN Raise(w, "TypeError")
    ELSE IF node.next # "" /\ node.next \notin DOMAIN idx
         THEN Raise(Warn(w, "invalid state"), "TypeError")
    ELSE
      LET logged == _findMatchingChild(node.children, input)
          w1 == [w EXCEPT !.called = @ \cup logged.called]
          successor == IF node.next # "" THEN <<idx[node.next]>>
                       ELSE _findMatchingChild(node.children, input).found
      IN IF successor = <<>> THEN Raise(w1, "NoSuccessor")
         ELSE CallAction(self, w1, key, input, successor[1])

\* FSM.handleInput
handleInput(key, input) ==
  [type |-> HANDLE_INPUT, key |-> key, nextState |-> "", buffer |-> <<>>,
   input |-> input]

(***************************************************************************)
(* FSM.prototype.middleware, the middleware of machine self, for an action *)
(* whose key is self.                                                      *)
(***************************************************************************)
\* (a variant that calls _handleInput and drops the action it returns)
NextHandleInput_Dropped(self, w, key, input) ==
  LET h == _handleInput(self, w, key, input) IN
  IF h.err # "none" THEN Throw(h.w, h.err) ELSE Ok(h.w)

\* next(self._handleInput(store.getState, store.dispatch, action.key, input))
NextHandleInput(self, w, key, input) ==
  LET h == _handleInput(self, w, key, input) IN
  IF h.err # "none" THEN Throw(h.w, h.err) ELSE next(h.w, h.result)

\* (a variant of the HANDLE_INPUT case that does not look at transitioning)
OnHandleInput_NoBuffer(self, w, fsmState, action) ==
  IF ~Truthy(action.input) THEN Throw(w, "AssertionError")
  ELSE NextHandleInput(self, w, action.key, action.input)

\* case ACTIONS.HANDLE_INPUT
OnHandleInput(self, w, fsmState, action) ==
  IF ~Truthy(action.input) THEN Throw(w, "AssertionError")
  ELSE IF fsmState.transitioning
  THEN next(w, _updateBuffer(self, Unshift(fsmState.inputBuffer, action.input)))
  ELSE NextHandleInput(self, w, action.key, action.input)

\* (a variant of the TRANSITIONED case that leaves the buffer alone)
OnTransitioned_NoDrain(self, w, fsmState, action) == next(w, action)

\* case ACTIONS._TRANSITIONED
OnTransitioned(self, w, fsmState, action) ==
  LET r1 == next(w, action) IN
  IF r1.err # "none" THEN r1
  ELSE IF fsmState.inputBuffer # <<>> /\ Truthy(fsmState.inputBuffer[1])
  THEN LET nextInput == fsmState.inputBuffer[1]
           r2 == next(r1.w, _updateBuffer(self, Shift(fsmState.inputBuffer)))
       IN IF r2.err # "none" THEN r2
          ELSE NextHandleInput(self, r2.w, action.key, nextInput)
  ELSE r1

middleware(self, w, action) ==
  LET fsmState == w.store[self] IN
  CASE action.type = HANDLE_INPUT -> OnHandleInput(self, w, fsmState, action)
    [] action.type = _TRANSITIONED -> OnTransitioned(self, w, fsmState, action)
    [] OTHER -> next(w, action)

\* store.dispatch: the chain of the middlewares of all machines; only the one
\* whose key is action.key does more than pass the action on.
\* dispatched collects the actions given to store.dispatch.
dispatch(w_in, action) ==
  LET w == [w_in EXCEPT !.dispatched = Append(@, action)] IN
  IF action.key \in Keys THEN middleware(action.key, w, action)
  ELSE next(w, action)

\* (a variant of the then callback that does nothing)
ThenCallback_Silent(w, k, succ) == Ok(w)

\* promise.then(function (res) { dispatch(_transitioned(successor._fullName)) })
ThenCallback(w, k, succ) == dispatch(w, _transitioned(k, succ))

\* (a variant of the catch callback that logs the error and does nothing else)
CatchCallback_LogOnly(w, k, succ) == Ok(Warn(w, "action error"))

\* promise.catch(function (err) { console.error(...); dispatch(...) })
CatchCallback(w, k, succ) ==
  dispatch(Warn(w, "action error"), _transitioned(k, succ))

(***************************************************************************)
(* Steps.                                                                  *)
(***************************************************************************)
World == [store |-> store, pending |-> pending, invoked |-> invoked,
          diag |-> {}, called |-> {}, handled |-> <<>>, passed |-> <<>>,
          dispatched |-> <<>>, script |-> <<>>]

Commit(r) ==
  /\ store' = r.w.store
  /\ pending' = r.w.pending
  /\ invoked' = r.w.invoked
  /\ outcome' = [err |-> r.err, diag |-> r.w.diag, called |-> r.w.called,
                 handled |-> r.w.handled, passed |-> r.w.passed,
                 dispatched |-> r.w.dispatched]

RECURSIVE SumLen(_, _)
SumLen(f, S) ==
  IF S = {} THEN 0
  ELSE LET k == CHOOSE x \in S : TRUE IN Len(f[k]) + SumLen(f, S \ {k})

Init ==
  /\ \E d \in [Keys -> Descriptions] :
       /\ d["fsm2"] = DescMixed
       /\ description = [k \in Keys |-> StampAll(d[k])]
       /\ index = [k \in Keys |-> _buildIndex(d[k])]
  /\ store = [k \in Keys |-> createEmpty]
  /\ pending = [k \in Keys |-> <<>>]
  /\ invoked = [k \in Keys |-> <<>>]
  /\ submitted = [k \in Keys |-> <<>>]
  /\ ev = [type |-> "INIT", key |-> "", input |-> Str(""), n |-> 0]
  /\ outcome = [err |-> "none", diag |-> {}, called |-> {}, handled |-> <<>>,
                passed |-> <<>>, dispatched |-> <<>>]

\* store.dispatch(fsm.handleInput(k, input)) by a caller
DispatchInput(k, input) ==
  /\ SumLen(submitted, Keys) < MaxInputs
  /\ LET token == Tag(input, Len(submitted[k]) + 1) IN
       /\ Commit(dispatch(World, handleInput(k, token)))
       /\ submitted' = [submitted EXCEPT ![k] = Append(@, token)]
       /\ ev' = [type |-> HANDLE_INPUT, key |-> k, input |-> token, n |-> ev.n + 1]
  /\ UNCHANGED <<description, index>>

\* The i-th pending promise of machine k is resolved or rejected: a promise
\* settles once, and runs the callback given to then when it is resolved and
\* the one given to catch when it is rejected.
Settle(k, i, rejected) ==
  /\ i \in 1..Len(pending[k])
  /\ LET p == pending[k][i]
         w0 == [World EXCEPT !.pending[k] = SubSeq(@, 1, i - 1) \o SubSeq(@, i + 1, Len(@))]
     IN Commit(IF rejected THEN CatchCallback(w0, k, p.succ)
                           ELSE ThenCallback(w0, k, p.succ))
  /\ ev' = [type |-> IF rejected THEN "REJECTED" ELSE "RESOLVED", key |-> k,
            input |-> Str(""), n |-> ev.n + 1]
  /\ UNCHANGED <<description, index, submitted>>

Next ==
  \/ \E k \in Keys : \E input \in InputsOf(k) : DispatchInput(k, input)
  \/ \E k \in Keys, i \in 1..MaxInputs, rejected \in BOOLEAN : Settle(k, i, rejected)

Spec == Init /\ [][Next]_vars

(***************************************************************************)
(* The way the tests drive a store: all inputs are dispatched back-to-back *)
(* before the first promise settles, and then the promises settle.         *)
(***************************************************************************)
DispatchBackToBack(k, input) ==
  /\ ev.type \in {"INIT", HANDLE_INPUT}
  /\ DispatchInput(k, input)

NextBackToBack ==
  \/ \E k \in Keys : \E input \in InputsOf(k) : DispatchBackToBack(k, input)
  \/ \E k \in Keys, i \in 1..MaxInputs, rejected \in BOOLEAN : Settle(k, i, rejected)

SpecBackToBack == Init /\ [][NextBackToBack]_vars

(***************************************************************************)
(* A store with a listener that dispatches inputs for the machine whose    *)
(* event is being handled, from inside the notification.                   *)
(***************************************************************************)
\* the machines of this store take every input alike
ReentrantInputs == {Str("c")}

\* what the listener does at the notifications of one event of machine k:
\* at each of them nothing, or the dispatch of one input
Listeners(k) ==
  SeqsUpTo({<<>>} \cup {<<x>> : x \in ReentrantInputs}, MaxReentrant)

\* the number of inputs among the first n entries
RECURSIVE CountInputs(_, _)
CountInputs(listener, n) ==
  IF n = 0 THEN 0
  ELSE CountInputs(listener, n - 1) + (IF listener[n] = <<>> THEN 0 ELSE 1)

\* the script of a listener: its inputs as HANDLE_INPUT actions, numbered in
\* the order of their dispatch from number first on
ScriptOf(k, listener, first) ==
  [p \in 1..Len(listener) |->
     IF listener[p] = <<>> THEN <<>>
     ELSE <<handleInput(k, Tag(listener[p][1],
                               first + CountInputs(listener, p) - 1))>>]

\* the inputs of the script entries that were used up
RECURSIVE Dispatched(_, _)
Dispatched(script, n) ==
  IF n = 0 THEN <<>>
  ELSE Dispatched(script, n - 1)
         \o (IF script[n] = <<>> THEN <<>> ELSE <<script[n][1].input>>)

InitReentrant ==
  /\ \E d \in {DescAsyncLoop, DescMixed} :
       /\ description = [k \in Keys |-> StampAll(IF k = "fsm1" THEN d ELSE DescMixed)]
       /\ index = [k \in Keys |-> _buildIndex(IF k = "fsm1" THEN d ELSE DescMixed)]
  /\ store = [k \in Keys |-> createEmpty]
  /\ pending = [k \in Keys |-> <<>>]
  /\ invoked = [k \in Keys |-> <<>>]
  /\ submitted = [k \in Keys |-> <<>>]
  /\ ev = [type |-> "INIT", key |-> "", input |-> Str(""), n |-> 0]
  /\ outcome = [err |-> "none", diag |-> {}, called |-> {}, handled |-> <<>>,
                passed |-> <<>>, dispatched |-> <<>>]

\* store.dispatch(fsm.handleInput(k, input)) by a caller, with the listener
DispatchInputReentrant(k, input, listener) ==
  /\ SumLen(submitted, Keys) + 1 + CountInputs(listener, Len(listener)) <= MaxInputs
  /\ LET token == Tag(input, Len(submitted[k]) + 1)
         script == ScriptOf(k, listener, Len(submitted[k]) + 2)
         r == dispatch([World EXCEPT !.script = script], handleInput(k, token))
     IN /\ Commit(r)
        /\ submitted' = [submitted EXCEPT ![k] =
              Append(@, token) \o Dispatched(script, Len(script) - Len(r.w.script))]
        /\ ev' = [type |-> HANDLE_INPUT, key |-> k, input |-> token, n |-> ev.n + 1]
  /\ UNCHANGED <<description, index>>

\* a promise of machine k settles, with the listener
SettleReentrant(k, i, rejected, listener) ==
  /\ i \in 1..Len(pending[k])
  /\ SumLen(submitted, Keys) + CountInputs(listener, Len(listener)) <= MaxInputs
  /\ LET p == pending[k][i]
         script == ScriptOf(k, listener, Len(submitted[k]) + 1)
         w0 == [World EXCEPT !.pending[k] = SubSeq(@, 1, i - 1) \o SubSeq(@, i + 1, Len(@)),
                             !.script = script]
         r == IF rejected THEN CatchCallback(w0, k, p.succ)
                          ELSE ThenCallback(w0, k, p.succ)
     IN /\ Commit(r)
        /\ submitted' = [submitted EXCEPT ![k] =
              @ \o Dispatched(script, Len(script) - Len(r.w.script))]
  /\ ev' = [type |-> IF rejected THEN "REJECTED" ELSE "RESOLVED", key |-> k,
            input |-> Str(""), n |-> ev.n + 1]
  /\ UNCHANGED <<description, index>>

NextReentrant ==
  \/ \E k \in Keys : \E input \in ReentrantInputs : \E listener \in Listeners(k) :
       DispatchInputReentrant(k, input, listener)
  \/ \E k \in Keys : \E i \in 1..MaxInputs, rejected \in BOOLEAN :
       \E listener \in Listeners(k) : SettleReentrant(k, i, rejected, listener)

SpecReentrant == InitReentrant /\ [][NextReentrant]_vars

(***************************************************************************)
(* Construction on its own: new FSM(key, description) for descriptions of  *)
(* any shape.  A machine starts with the description it is given and no    *)
(* index; the constructor builds the index and stamps the description.     *)
(***************************************************************************)
InitIndex ==
  /\ \E d \in GenDescriptions :
       description = [k \in Keys |-> IF k = "fsm1" THEN d ELSE DescMixed]
  /\ index = [k \in Keys |-> <<>>]
  /\ store = [k \in Keys |-> createEmpty]
  /\ pending = [k \in Keys |-> <<>>]
  /\ invoked = [k \in Keys |-> <<>>]
  /\ submitted = [k \in Keys |-> <<>>]
  /\ ev = [type |-> "INIT", key |-> "", input |-> Str(""), n |-> 0]
  /\ outcome = [err |-> "none", diag |-> {}, called |-> {}, handled |-> <<>>,
                passed |-> <<>>, dispatched |-> <<>>]

\* function FSM (key, description, options)
Construct(k) ==
  /\ DOMAIN index[k] = {}
  /\ index' = [index EXCEPT ![k] = _buildIndex(description[k])]
  /\ description' = [description EXCEPT ![k] = StampAll(@)]
  /\ ev' = [type |-> "CONSTRUCT", key |-> k, input |-> Str(""), n |-> ev.n + 1]
  /\ UNCHANGED <<store, pending, invoked, submitted, outcome>>

NextIndex == \E k \in Keys : Construct(k)

SpecIndex == InitIndex /\ [][NextIndex]_vars

(***************************************************************************)
(* Properties.                                                             *)
(***************************************************************************)
IsSettle(e) == e.type \in {"RESOLVED", "REJECTED"}

\* the step is the dispatch of an input to machine k
InputStep(k) == ev'.n # ev.n /\ ev'.type = HANDLE_INPUT /\ ev'.key = k

\* the step is a settle of a promise of machine k
SettleStep(k) == ev'.n # ev.n /\ IsSettle(ev') /\ ev'.key = k

\* new is old with x put in at some position
InsertedInto(old, new, x) ==
  \E p \in 1..Len(new) :
    /\ new[p] = x
    /\ SubSeq(new, 1, p - 1) \o SubSeq(new, p + 1, Len(new)) = old

\* C1: a machine has at most one action in flight: transitioning = true means
\* exactly one started action has not settled, and no action was ever invoked
\* while an earlier one of the same machine was still pending.
C1_AtMostOneInFlight ==
  \A k \in Keys :
    /\ Len(pending[k]) <= 1
    /\ store[k].transitioning => Len(pending[k]) = 1
    /\ \A j \in 1..Len(invoked[k]) : invoked[k][j].inflight = 0

\* a settle drained a buffered input whose action is asynchronous, while
\* another input still waits in the buffer
C1_Witness ==
  \E k \in Keys :
    /\ IsSettle(ev) /\ ev.key = k
    /\ store[k].transitioning /\ Len(pending[k]) = 1
    /\ Len(invoked[k]) >= 2
    /\ store[k].inputBuffer # <<>>

\* C2: an input dispatched to a machine that is transitioning is not handed to
\* _handleInput: no action is invoked, stateName and transitioning keep their
\* values, and the buffer is the old buffer with the input added to it.
C2_BufferedWhileTransitioning ==
  [][\A k \in Keys :
       (InputStep(k) /\ store[k].transitioning) =>
          /\ outcome'.handled = <<>>
          /\ outcome'.err = "none"
          /\ invoked' = invoked
          /\ pending' = pending
          /\ store'[k].stateName = store[k].stateName
          /\ store'[k].transitioning
          /\ InsertedInto(store[k].inputBuffer, store'[k].inputBuffer, ev'.input)
          /\ \A j \in Keys \ {k} : store'[j] = store[j]]_vars

\* an input was buffered behind another one
C2_Witness ==
  \E k \in Keys :
    /\ ev.type = HANDLE_INPUT /\ ev.key = k
    /\ store[k].transitioning
    /\ outcome.handled = <<>>
    /\ Len(store[k].inputBuffer) >= 2
    /\ \E p \in 1..Len(store[k].inputBuffer) : store[k].inputBuffer[p] = ev.input

(***************************************************************************)
(* Helpers of the properties about the buffer and about _handleInput.      *)
(***************************************************************************)
Ids(buffer) == {buffer[p].id : p \in 1..Len(buffer)}

Min(S) == CHOOSE x \in S : \A y \in S : x <= y

\* the step made machine k handle an input (it called _handleInput once)
Handles(k) ==
  /\ ev'.n # ev.n /\ ev'.key = k
  /\ Len(outcome'.handled) = 1
  /\ outcome'.handled[1].at \in DOMAIN index[k]

\* the node at which that input was handled, and the input
HNode(k) == index[k][outcome'.handled[1].at]
HInput == outcome'.handled[1].input

\* the step invoked the action of the node at path P of machine k, once
InvokedOnce(k, P) ==
  /\ Len(invoked'[k]) = Len(invoked[k]) + 1
  /\ SubSeq(invoked'[k], 1, Len(invoked[k])) = invoked[k]
  /\ invoked'[k][Len(invoked'[k])].node = P
  /\ invoked'[k][Len(invoked'[k])].input = HInput

\* C3: entries leave the buffer only on a settle, one per settle, and the one
\* that leaves and is handed to _handleInput is the one buffered earliest.
C3_FIFO ==
  [][\A k \in Keys :
       LET gone == Ids(store[k].inputBuffer) \ Ids(store'[k].inputBuffer) IN
       gone # {} =>
          /\ SettleStep(k)
          /\ gone = {Min(Ids(store[k].inputBuffer))}
          /\ Len(outcome'.handled) = 1
          /\ outcome'.handled[1].input.id = Min(Ids(store[k].inputBuffer))]_vars

\* C4: the inputs for which an action was invoked come in the order in which
\* they were dispatched, none of them twice: the numbers of the handled inputs
\* increase along the invocation history.
C4_InOrderOnce ==
  \A k \in Keys :
    \A i, j \in 1..Len(invoked[k]) :
      i < j => invoked[k][i].input.id < invoked[k][j].input.id

\* C5: draining does not stop while inputs are buffered: when a settle has been
\* processed without error and no action of the machine is pending, so that no
\* further settle can come, the buffer is empty or the machine is at END.
C5_DrainsUntilEmpty ==
  \A k \in Keys :
    (IsSettle(ev) /\ ev.key = k /\ outcome.err = "none" /\ pending[k] = <<>>) =>
       store[k].inputBuffer = <<>> \/ store[k].stateName = END

\* C6: handling an input at a state without next and without children moves
\* the machine to END, with transitioning false and no action invoked.
C6_LeafGoesToEnd ==
  [][\A k \in Keys :
       (/\ Handles(k)
        /\ HNode(k).name # END
        /\ HNode(k).next = "" /\ Len(HNode(k).children) = 0) =>
          /\ store'[k].stateName = END
          /\ ~store'[k].transitioning
          /\ invoked' = invoked]_vars

\* C7: handling an input at a state whose next is a key P of the index invokes
\* the action of the node at P and makes P the state: at once, or when the
\* promise of that action settles.
C7_NextIsFollowed ==
  [][\A k \in Keys :
       (/\ Handles(k)
        /\ HNode(k).name # END
        /\ HNode(k).next # "" /\ HNode(k).next \in DOMAIN index[k]) =>
          /\ InvokedOnce(k, HNode(k).next)
          /\ \/ store'[k].stateName = HNode(k).next /\ ~store'[k].transitioning
             \/ /\ store'[k].transitioning
                /\ pending'[k] = <<[succ |-> HNode(k).next]>>]_vars

\* C8: handling an input at a state whose next is not a key of the index moves
\* the machine to END with a diagnostic, no action invoked and no error raised.
C8_DanglingNextGoesToEnd ==
  [][\A k \in Keys :
       (/\ Handles(k)
        /\ HNode(k).name # END
        /\ HNode(k).next # "" /\ HNode(k).next \notin DOMAIN index[k]) =>
          /\ store'[k].stateName = END
          /\ ~store'[k].transitioning
          /\ "invalid state" \in outcome'.diag
          /\ invoked' = invoked
          /\ outcome'.err = "none"]_vars

\* The matcher of the specification: a string or a number accepts the input
\* strictly equal to it, a pattern the inputs it tests true on, a predicate
\* the inputs it returns truthy for, and only an absent rule accepts all.
RefAccepts(accepts, input) ==
  CASE accepts.kind = "absent" -> TRUE
    [] accepts.kind = "str" -> input.kind = "str" /\ input.s = accepts.s
    [] accepts.kind = "num" -> input.kind = "num" /\ input.n = accepts.n
    [] accepts.kind = "regex" -> RegExpTest(accepts.s, input)
    [] accepts.kind = "fn" -> PredicateTruthy(accepts.s, input)

\* the positions of the children that accept the input by that matcher
RefMatching(children, input) ==
  {i \in 1..Len(children) : RefAccepts(children[i].accepts, input)}

\* C9: at a state without next and with children, the successor is the first
\* child in declared order whose accepts rule accepts the input or is absent,
\* and no accepts function of a later sibling is called.
C9_FirstMatchWins ==
  [][\A k \in Keys :
       (/\ Handles(k)
        /\ HNode(k).name # END
        /\ HNode(k).next = "" /\ Len(HNode(k).children) > 0
        /\ RefMatching(HNode(k).children, HInput) # {}) =>
          LET children == HNode(k).children
              first == Min(RefMatching(children, HInput))
          IN /\ InvokedOnce(k, children[first]._fullName)
             /\ outcome'.called \subseteq
                  {children[i]._fullName : i \in 1..first}]_vars

\* C10: for every child that _findMatchingChild looks at and every input, its
\* decision to accept equals that of the matcher of the specification.
C10_MatcherIsReference ==
  [][\A k \in Keys :
       (/\ Handles(k)
        /\ HNode(k).name # END
        /\ HNode(k).next = "" /\ Len(HNode(k).children) > 0) =>
          \A i \in 1..Len(HNode(k).children) :
            (\A j \in 1..(i - 1) : ~CodeAccepts(HNode(k).children[j].accepts, HInput)) =>
               (CodeAccepts(HNode(k).children[i].accepts, HInput)
                  <=> RefAccepts(HNode(k).children[i].accepts, HInput))]_vars

C12_EndWarnsWithoutError ==
  [][\A k \in Keys :
       (Handles(k) /\ InputStep(k) /\ HNode(k).name = END) =>
          /\ "in END state" \in outcome'.diag
          /\ outcome'.err = "none"]_vars

\* C13: an input that raises a fatal defect (no successor, a bad action
\* result) leaves stateName, transitioning and inputBuffer as they were before
\* it was handled: unchanged for an input handled directly; for an input
\* drained on a settle the machine is idle at the settled state and the
\* failing input has not left the buffer.
C13_DefectKeepsState ==
  [][\A k \in Keys :
       (Handles(k) /\ outcome'.err \in {"NoSuccessor", "NotPromise"}) =>
          /\ InputStep(k) => store'[k] = store[k]
          /\ SettleStep(k) =>
               /\ store'[k].stateName = outcome'.handled[1].at
               /\ ~store'[k].transitioning
               /\ store'[k].inputBuffer = store[k].inputBuffer]_vars

\* the step invoked one action of machine k; LastInvoked is its record
InvokesOne(k) ==
  /\ Len(invoked'[k]) = Len(invoked[k]) + 1
  /\ invoked'[k][Len(invoked'[k])].node \in DOMAIN index[k]

LastInvoked(k) == invoked'[k][Len(invoked'[k])]

PassedTypes(o) == {o.passed[p].type : p \in 1..Len(o.passed)}

\* C14: when the dispatch of an input invokes a synchronous action, the
\* dispatch returns with stateName at the successor's fullName and
\* transitioning false, and transitioning was never set for that input.
C14_SyncSettlesAtOnce ==
  [][\A k \in Keys :
       (InputStep(k) /\ Handles(k) /\ InvokesOne(k)
          /\ index[k][LastInvoked(k).node].action = "sync") =>
            /\ outcome'.err = "none"
            /\ store'[k].stateName = LastInvoked(k).node
            /\ ~store'[k].transitioning
            /\ _TRANSITIONING \notin PassedTypes(outcome')
            /\ pending'[k] = <<>>]_vars

\* a dispatched input moved a machine into a nested state by a synchronous
\* action
C14_Witness ==
  \E k \in Keys :
    /\ ev.type = HANDLE_INPUT /\ ev.key = k /\ outcome.err = "none"
    /\ Len(outcome.handled) = 1
    /\ invoked[k] # <<>>
    /\ invoked[k][Len(invoked[k])].input = ev.input
    /\ invoked[k][Len(invoked[k])].node = "StateA.StateB.StateC"
    /\ index[k]["StateA.StateB.StateC"].action = "sync"
    /\ store[k].stateName = "StateA.StateB.StateC"

\* C15: when an input invokes an asynchronous action, the handler returns
\* with transitioning true and stateName still the predecessor; until the
\* settle of that action no step changes stateName or clears transitioning,
\* and the settle is what moves stateName to the successor.
C15_AsyncWaitsForSettle ==
  [][\A k \in Keys :
       /\ (Handles(k) /\ InvokesOne(k) /\ outcome'.err = "none"
             /\ index[k][LastInvoked(k).node].action = "async") =>
               /\ store'[k].transitioning
               /\ store'[k].stateName = outcome'.handled[1].at
               /\ InputStep(k) => store'[k].stateName = store[k].stateName
               /\ pending'[k] = <<[succ |-> LastInvoked(k).node]>>
       /\ (pending[k] # <<>> /\ ~SettleStep(k)) =>
               /\ store[k].transitioning /\ store'[k].transitioning
               /\ store'[k].stateName = store[k].stateName
       /\ (SettleStep(k) /\ Len(pending[k]) = 1) =>
               /\ outcome'.passed # <<>>
               /\ outcome'.passed[1] = _transitioned(k, pending[k][1].succ)
               /\ store[k].inputBuffer = <<>> =>
                    /\ store'[k].stateName = pending[k][1].succ
                    /\ ~store'[k].transitioning]_vars

\* an input arrived while an asynchronous action was running: the machine is
\* still at the predecessor, and the input waits in the buffer
C15_Witness ==
  \E k \in Keys :
    /\ pending[k] # <<>> /\ store[k].transitioning
    /\ store[k].stateName # pending[k][1].succ
    /\ store[k].stateName # START
    /\ ev.type = HANDLE_INPUT /\ ev.key = k
    /\ store[k].inputBuffer # <<>>

\* C16: the settle of a started asynchronous action gives exactly one
\* TRANSITIONED action, carrying the successor's fullName, to store.dispatch
\* and takes the promise off the pending ones; a rejected promise settles
\* the transition exactly as a resolved one.
C16_OneSettlePerAction ==
  [][\A k \in Keys :
       SettleStep(k) =>
         \E i \in 1..Len(pending[k]) :
           LET succ == pending[k][i].succ IN
           /\ outcome'.dispatched = <<_transitioned(k, succ)>>
           /\ outcome'.passed[1] = _transitioned(k, succ)
           /\ IF store[k].inputBuffer = <<>>
              THEN /\ store'[k] = [store[k] EXCEPT !.stateName = succ,
                                                   !.transitioning = FALSE]
                   /\ pending'[k] =
                        SubSeq(pending[k], 1, i - 1)
                          \o SubSeq(pending[k], i + 1, Len(pending[k]))
                   /\ outcome'.err = "none"
              ELSE /\ Len(outcome'.handled) = 1
                   /\ outcome'.handled[1].at = succ
                   /\ Len(store'[k].inputBuffer) = Len(store[k].inputBuffer) - 1]_vars

\* a rejected promise moved its machine to the successor
C16_Witness ==
  \E k \in Keys :
    /\ ev.type = "REJECTED" /\ ev.key = k
    /\ "action error" \in outcome.diag
    /\ Len(outcome.dispatched) = 1
    /\ store[k].stateName = outcome.dispatched[1].nextState
    /\ ~store[k].transitioning

\* the machine of key k has been constructed
Constructed(k) == DOMAIN index[k] # {}

\* the places of the nodes of a tree: <<i>> is the i-th top-level node,
\* <<i, j>> its j-th child, and so on
RECURSIVE PositionsOf(_)
PositionsOf(nodes) ==
  UNION {{<<i>>} \cup {<<i>> \o p : p \in PositionsOf(nodes[i].children)} :
           i \in 1..Len(nodes)}

RECURSIVE NodeAt(_, _)
NodeAt(nodes, pos) ==
  IF Len(pos) = 1 THEN nodes[pos[1]]
  ELSE NodeAt(nodes[pos[1]].children, Tail(pos))

\* the names from the top-level ancestor down to the node at pos
RECURSIVE NameChain(_, _)
NameChain(nodes, pos) ==
  IF Len(pos) = 1 THEN <<nodes[pos[1]].name>>
  ELSE <<nodes[pos[1]].name>> \o NameChain(nodes[pos[1]].children, Tail(pos))

RECURSIVE DotJoin(_)
DotJoin(names) ==
  IF Len(names) = 1 THEN names[1]
  ELSE names[1] \o "." \o DotJoin(Tail(names))

\* C17: after construction every node's fullName is the dot-join of the
\* names on its ancestor chain, and the index has one entry per node of the
\* description plus START and END: its size is the node count plus two.
C17_IndexOfEveryNode ==
  \A k \in Keys :
    Constructed(k) =>
      /\ \A pos \in PositionsOf(description[k]) :
           LET fullName == DotJoin(NameChain(description[k], pos)) IN
           /\ NodeAt(description[k], pos)._fullName = fullName
           /\ fullName \in DOMAIN index[k]
      /\ Cardinality(DOMAIN index[k])
           = Cardinality(PositionsOf(description[k])) + 2

\* C18: no machine is constructed from a description in which two nodes
\* have the same fullName: in a constructed machine every node of the
\* description is the index's entry for its fullName, and no two are.
C18_DuplicateFullNameFails ==
  \A k \in Keys :
    Constructed(k) =>
      \A p, q \in PositionsOf(description[k]) :
        /\ index[k][NodeAt(description[k], p)._fullName] = NodeAt(description[k], p)
        /\ p # q => NodeAt(description[k], p)._fullName
                      # NodeAt(description[k], q)._fullName

\* C19: after construction the index holds the synthetic START entry, whose
\* children are the top-level nodes of the description, and the synthetic
\* END entry, which has no children, no next and no action.
C19_SyntheticEntries ==
  \A k \in Keys :
    Constructed(k) =>
      /\ START \in DOMAIN index[k] /\ END \in DOMAIN index[k]
      /\ index[k][START] = Node(START, NoAccepts, "noaction", description[k], "")
      /\ index[k][END] = Node(END, NoAccepts, "noaction", <<>>, "")

\* C20: machines with distinct keys are independent: an event of machine k
\* leaves the state of every other machine as it was, and an input for a
\* machine that is not transitioning is handled directly, whatever the other
\* machines have in flight.
C20_MachinesIndependent ==
  [][\A k \in Keys :
       (ev'.n # ev.n /\ ev'.key = k) =>
          /\ \A j \in Keys \ {k} :
               /\ store'[j] = store[j]
               /\ pending'[j] = pending[j]
               /\ invoked'[j] = invoked[j]
          /\ (InputStep(k) /\ ~store[k].transitioning) =>
               /\ Len(outcome'.handled) = 1
               /\ outcome'.handled[1] = [at |-> store[k].stateName, input |-> ev'.input]
               /\ store'[k].inputBuffer = store[k].inputBuffer]_vars

\* machine j handled an input directly and invoked an action for it while
\* machine k had an action in flight
C20_Witness ==
  \E j \in Keys : \E k \in Keys \ {j} :
    /\ pending[k] # <<>> /\ store[k].transitioning
    /\ ev.type = HANDLE_INPUT /\ ev.key = j /\ outcome.err = "none"
    /\ Len(outcome.handled) = 1
    /\ invoked[j] # <<>>
    /\ invoked[j][Len(invoked[j])].input = ev.input
    /\ store[j].inputBuffer = <<>>

\* C21: in every reachable state the stateName of a machine is a key of the
\* machine's index.
C21_StateNameIsIndexed ==
  \A k \in Keys : store[k].stateName \in DOMAIN index[k]

\* a machine has moved into a nested state, whose key is a dotted path
C21_Witness ==
  \E k \in Keys :
    /\ store[k].stateName = "StateA.StateB.StateC"
    /\ invoked[k] # <<>>
    /\ index[k][store[k].stateName].name = "StateC"

\* the inputs handed to _handleInput by the event
HandledIds(o) == {o.handled[p].input.id : p \in 1..Len(o.handled)}

\* the inputs dispatched to machine k by the event, nested dispatches included
NewIds(k) == {submitted'[k][p].id : p \in Len(submitted[k]) + 1..Len(submitted'[k])}

\* C22: buffer updates are atomic with respect to the event being handled,
\* nested dispatches of inputs for the same machine included: every input
\* that was in the buffer or was dispatched during the event is afterwards
\* in the buffer or has been handed to _handleInput, and never both or twice.
C22_NoInputLostOrDuplicated ==
  [][\A k \in Keys :
       (ev'.n # ev.n /\ ev'.key = k) =>
          /\ Ids(store[k].inputBuffer) \cup NewIds(k)
               = Ids(store'[k].inputBuffer) \cup HandledIds(outcome')
          /\ Ids(store'[k].inputBuffer) \cap HandledIds(outcome') = {}
          /\ Cardinality(Ids(store'[k].inputBuffer)) = Len(store'[k].inputBuffer)
          /\ Cardinality(HandledIds(outcome')) = Len(outcome'.handled)]_vars

\* the inputs of a sequence of tokens without their numbers, and the nodes of
\* a sequence of invocations
Values(tokens) == [p \in 1..Len(tokens) |-> Tag(tokens[p], 0)]
Nodes(invocations) == [p \in 1..Len(invocations) |-> invocations[p].node]

\* all dispatched inputs of machine k are dealt with: nothing is pending
Settled(k) == pending[k] = <<>> /\ ~store[k].transitioning

\* C23: for the machine of test 'single machine, multiple children, mixed
\* sync and async', the inputs 'first hello!', 'caaaab', 'second hello!', 'c'
\* dispatched back-to-back invoke the actions of A, C, A, B in this order
\* once all promises have settled.
C23_OutputIsACAB ==
  \A k \in Keys :
    (/\ description[k] = StampAll(DescChildren)
     /\ Values(submitted[k]) = <<Str("hello"), Str("caaaab"), Str("hello"), Str("c")>>
     /\ Settled(k)) =>
       Nodes(invoked[k]) = <<"StateA", "StateA.StateC", "StateA", "StateA.StateB">>

\* C24: for the machine with A (asynchronous, next = B) and B (synchronous),
\* two inputs dispatched back-to-back invoke A's action and, after A has
\* settled, B's action, once each; the machine ends at B, idle, with an
\* empty buffer.
C24_TwoStatesMixed ==
  \A k \in Keys :
    (/\ description[k] = StampAll(DescMixed)
     /\ Len(submitted[k]) = 2
     /\ Settled(k)) =>
       /\ Nodes(invoked[k]) = <<"StateA", "StateB">>
       /\ invoked[k][1].input = submitted[k][1]
       /\ invoked[k][2].input = submitted[k][2]
       /\ invoked[k][2].inflight = 0
       /\ store[k] = [stateName |-> "StateB", transitioning |-> FALSE,
                      inputBuffer |-> <<>>]

\* the settle of A's promise drained the second input and invoked B
C24_Witness ==
  \E k \in Keys :
    /\ description[k] = StampAll(DescMixed)
    /\ Len(submitted[k]) = 2 /\ Settled(k)
    /\ IsSettle(ev) /\ ev.key = k
    /\ Len(outcome.handled) = 1 /\ outcome.handled[1].at = "StateA"
    /\ store[k].stateName = "StateB"

\* C25: a machine whose single state A has a synchronous action and next = A
\* handles each input inside its own dispatch: after N inputs there have been
\* N invocations, one per input in order, stateName is A, and in every state
\* on the way transitioning is false and inputBuffer is empty.
C25_SyncHandledInDispatch ==
  \A k \in Keys :
    description[k] = StampAll(DescSyncLoop) =>
      /\ ~store[k].transitioning
      /\ store[k].inputBuffer = <<>>
      /\ pending[k] = <<>>
      /\ Len(invoked[k]) = Len(submitted[k])
      /\ \A j \in 1..Len(invoked[k]) :
           /\ invoked[k][j].node = "StateA"
           /\ invoked[k][j].input = submitted[k][j]
      /\ submitted[k] # <<>> => store[k].stateName = "StateA"
      /\ ev.key = k => outcome.err = "none"

\* three inputs, as in test 'single machine, single state, synchronous write'
C25_Witness ==
  \E k \in Keys :
    /\ description[k] = StampAll(DescSyncLoop)
    /\ Len(submitted[k]) = 3 /\ Len(invoked[k]) = 3
    /\ store[k].stateName = "StateA"

\* the chain of next links of the machines whose actions are all
\* asynchronous: the loop at A, and A then B then C
NextChain(k) ==
  IF description[k] = StampAll(DescAsyncLoop)
  THEN [j \in 1..MaxInputs + 1 |-> "StateA"]
  ELSE IF description[k] = StampAll(DescChain)
  THEN <<"StateA", "StateB", "StateC">>
  ELSE <<>>

\* machine k is one of them and has got no more inputs than its chain is long
OnChain(k) == submitted[k] # <<>> /\ Len(submitted[k]) <= Len(NextChain(k))

\* C26: when every action of a machine is asynchronous, N inputs dispatched
\* back-to-back lead to N invocations along the chain of next links, the
\* first by its dispatch and one more by each settle that finds the buffer
\* non-empty.  As long as an input waits the machine has a promise whose
\* settle will take it, each settle uses up a promise or a buffered input,
\* and a machine with no promise left is idle with an empty buffer and N
\* invocations.
C26_AsyncChainCompletes ==
  [][\A k \in Keys :
       (OnChain(k) /\ OnChain(k)') =>
          /\ Len(invoked'[k]) + Len(store'[k].inputBuffer) = Len(submitted'[k])
          /\ Nodes(invoked'[k]) = SubSeq(NextChain(k), 1, Len(invoked'[k]))
          /\ store'[k].transitioning <=> Len(pending'[k]) = 1
          /\ ~store'[k].transitioning <=> pending'[k] = <<>>
          /\ pending'[k] = <<>> =>
               /\ store'[k].inputBuffer = <<>>
               /\ Len(invoked'[k]) = Len(submitted'[k])
          /\ SettleStep(k) =>
               /\ Len(invoked'[k]) = Len(invoked[k])
                    + (IF store[k].inputBuffer = <<>> THEN 0 ELSE 1)
               /\ Len(store'[k].inputBuffer) + Len(pending'[k])
                    < Len(store[k].inputBuffer) + Len(pending[k])
               /\ outcome'.err = "none"]_vars

\* three inputs have gone down the chain A, B, C
C26_Witness ==
  \E k \in Keys :
    /\ description[k] = StampAll(DescChain)
    /\ Len(submitted[k]) = 3 /\ Settled(k)
    /\ Nodes(invoked[k]) = <<"StateA", "StateB", "StateC">>
    /\ store[k] = [stateName |-> "StateC", transitioning |-> FALSE,
                   inputBuffer |-> <<>>]

\* C27: a machine whose single top-level state A has next = START loops
\* through START: each input invokes A's action once, so after N inputs there
\* have been N invocations, and no input raises an error.
C27_LoopsThroughStart ==
  \A k \in Keys :
    description[k] = StampAll(DescLoopStart) =>
      /\ Len(invoked[k]) = Len(submitted[k])
      /\ \A j \in 1..Len(invoked[k]) :
           /\ invoked[k][j].node = "A"
           /\ invoked[k][j].input = submitted[k][j]
      /\ ev.key = k => outcome.err = "none"

\* C28: the action invoked for a transition receives the input that caused
\* the transition as its third argument, after getState and dispatch, for an
\* input dispatched directly and for one replayed from the buffer.
C28_ActionReceivesInput ==
  \A k \in Keys : \A j \in 1..Len(invoked[k]) :
    /\ Len(invoked[k][j].args) = 3
    /\ SubSeq(invoked[k][j].args, 1, 2) = <<Fn("getState"), Fn("dispatch")>>
    /\ invoked[k][j].args[3] = invoked[k][j].input

\* C29: whenever a machine is idle between events (transitioning is false)
\* its inputBuffer is empty.
C29_IdleMeansEmptyBuffer ==
  \A k \in Keys : ~store[k].transitioning => store[k].inputBuffer = <<>>

\* actions of every type, for this machine, for another one and for no
\* machine of the store, with the values a state of machine k gives rise to
SampleActions(k) ==
  LET keys == Keys \cup {"other"}
      buffers == {<<>>, <<Tag(Str("c"), 1)>>, Shift(store[k].inputBuffer),
                  Unshift(store[k].inputBuffer, Tag(Str("hello"), 1))}
  IN UNION {
       {_transitioned(j, n) : n \in DOMAIN index[k]}
         \cup {_transitioning(j)}
         \cup {_updateBuffer(j, b) : b \in buffers}
         \cup {handleInput(j, Str("c"))}
         \cup {[type |-> "@@redux/INIT", key |-> j, nextState |-> END,
                buffer |-> <<Tag(Str("c"), 1)>>]}
       : j \in keys}

\* what an action may change in the state of machine k
Frame(k, state, action, result) ==
  IF action.key # k THEN result = state
  ELSE CASE action.type = _TRANSITIONED ->
              /\ result.stateName = action.nextState
              /\ ~result.transitioning
              /\ result.inputBuffer = state.inputBuffer
         [] action.type = _TRANSITIONING ->
              /\ result.transitioning
              /\ result.stateName = state.stateName
              /\ result.inputBuffer = state.inputBuffer
         [] action.type = _UPDATE_BUFFER ->
              /\ result.inputBuffer = action.buffer
              /\ result.stateName = state.stateName
              /\ result.transitioning = state.transitioning
         [] OTHER -> result = state

\* C30: each reducer event changes only its own fields of the runtime state:
\* TRANSITIONED sets stateName and clears transitioning, TRANSITIONING sets
\* transitioning, UPDATE_BUFFER replaces inputBuffer, each leaving the other
\* fields alone; an action of another type or with another key changes
\* nothing.  Stated for the state of every machine in every reachable state.
C30_ReducerFrame ==
  \A k \in Keys : \A action \in SampleActions(k) :
    /\ Frame(k, store[k], action, reducer(k, store[k], action))
    /\ DOMAIN reducer(k, store[k], action) = DOMAIN store[k]
    /\ rootReducer(store, action)[k] = reducer(k, store[k], action)

\* one event has sent all three kinds of action through the reducer of a
\* machine that had an input waiting
C30_Witness ==
  \E k \in Keys :
    /\ ev.key = k /\ IsSettle(ev)
    /\ {_TRANSITIONED, _TRANSITIONING, _UPDATE_BUFFER} \subseteq PassedTypes(outcome)
    /\ store[k].transitioning /\ store[k].inputBuffer # <<>>
    /\ store[k].stateName # START

\* C31: a settle that finds the buffer non-empty takes exactly one input out
\* of inputBuffer and hands that input to _handleInput, which runs from the
\* state the settle carries and not from the predecessor; a settle that
\* finds the buffer empty invokes no action and leaves the buffer empty.
C31_SettleDrainsOne ==
  [][\A k \in Keys :
       (SettleStep(k) /\ Len(pending[k]) = 1) =>
          IF store[k].inputBuffer = <<>>
          THEN /\ outcome'.handled = <<>>
               /\ invoked'[k] = invoked[k]
               /\ store'[k].inputBuffer = <<>>
          ELSE /\ Len(outcome'.handled) = 1
               /\ outcome'.handled[1].at = pending[k][1].succ
               /\ InsertedInto(store'[k].inputBuffer, store[k].inputBuffer,
                               outcome'.handled[1].input)
               /\ outcome'.handled[1].input.id \notin Ids(store'[k].inputBuffer)
               /\ Len(invoked'[k]) > Len(invoked[k]) =>
                    /\ InvokesOne(k)
                    /\ LastInvoked(k).input = outcome'.handled[1].input]_vars

\* a settle has carried a machine from START to StateA, taken one of two
\* waiting inputs and started StateB's action for it
C31_Witness ==
  \E k \in Keys :
    /\ IsSettle(ev) /\ ev.key = k
    /\ description[k] = StampAll(DescChain)
    /\ Len(invoked[k]) = 2
    /\ outcome.handled = <<[at |-> "StateA", input |-> invoked[k][2].input]>>
    /\ invoked[k][2].node = "StateB"
    /\ Len(store[k].inputBuffer) = 1
    /\ store[k].stateName = "StateA"

====
